---- MODULE Spec2Model ----
(***************************************************************************)
(* Model of gcloudorm/property.py: the property descriptors of the ORM.    *)
(* One descriptor (prop) governs one attribute of one record; the record's *)
(* values live in its entity mapping (entity).  Every descriptor method is *)
(* an operator computed as the Python code computes it; every public       *)
(* operation on a record is one action.                                    *)
(***************************************************************************)
EXTENDS Integers, Sequences, FiniteSets, TLC

VARIABLES ctor, prop, entity, last

vars == <<ctor, prop, entity, last>>

----------------------------------------------------------------------------
(* Bounds *)

\* longest sequence handed to a repeated property
MaxLen == 2
\* number of distinct clock instants utcnow() can return
MaxNow == 2

----------------------------------------------------------------------------
(* Python values.  t is the Python type, v the scalar payload (a tuple of  *)
(* integers), e the elements of a list or tuple.                           *)

Val(t, v, e) == [t |-> t, v |-> v, e |-> e]

None == Val("NoneType", <<>>, <<>>)
\* bool: b is 0 or 1
BoolV(b) == Val("bool", <<b>>, <<>>)
IntV(n) == Val("int", <<n>>, <<>>)
\* float: h counts halves, FloatV(5) is 2.5 and FloatV(10) is 5.0
FloatV(h) == Val("float", <<h>>, <<>>)
\* str: a Python 2 byte string, b its bytes
StrV(b) == Val("str", b, <<>>)
\* unicode: decoded text, c its code points
UnicodeV(c) == Val("unicode", c, <<>>)
\* datetime.datetime: day number d and second of the day s
DateTimeV(d, s) == Val("datetime", <<d, s>>, <<>>)
\* datetime.date
DateV(d) == Val("date", <<d>>, <<>>)
\* datetime.time: second of the day s, tz = 1 when it carries a tzinfo
TimeV(s, tz) == Val("time", <<s, tz>>, <<>>)
ListV(s) == Val("list", <<>>, s)
TupleV(s) == Val("tuple", <<>>, s)
\* "key not in the mapping"
Absent == Val("absent", <<>>, <<>>)

\* isinstance(v, cls): bool is a subclass of int, datetime of date
isinstance(v, cls) ==
    CASE cls = "int" -> v.t \in {"int", "bool"}
      [] cls = "date" -> v.t \in {"date", "datetime"}
      [] OTHER -> v.t = cls

\* the result of a call: a returned value, or a raised exception
Return(val) == [ok |-> TRUE, val |-> val]
Raise == [ok |-> FALSE, val |-> None]

\* bool(v): None, zero, the empty string and the empty sequence are false
truthy(v) ==
    CASE v.t = "NoneType" -> FALSE
      [] v.t \in {"bool", "int", "float"} -> v.v[1] # 0
      [] v.t \in {"str", "unicode"} -> v.v # <<>>
      [] v.t \in {"list", "tuple"} -> v.e # <<>>
      [] OTHER -> TRUE

\* a == b in Python 2: numbers compare by value, a byte string equals a
\* text when it is pure ASCII with the same characters, sequences compare
\* element by element within the same type, everything else structurally
numeric(v) == IF v.t = "float" THEN v.v[1] ELSE 2 * v.v[1]

RECURSIVE py_eq(_, _)
py_eq(a, b) ==
    IF a.t \in {"bool", "int", "float"} /\ b.t \in {"bool", "int", "float"}
    THEN numeric(a) = numeric(b)
    ELSE IF {a.t, b.t} = {"str", "unicode"}
    THEN a.v = b.v /\ \A i \in 1..Len(a.v) : a.v[i] < 128
    ELSE IF a.t = b.t /\ a.t \in {"list", "tuple"}
    THEN /\ Len(a.e) = Len(b.e)
         /\ \A i \in 1..Len(a.e) : py_eq(a.e[i], b.e[i])
    ELSE a = b

\* value in choices
py_in(v, choices) == \E c \in choices : py_eq(v, c)

----------------------------------------------------------------------------
(* Codecs *)

\* the marker of a failed decode
Invalid == <<-1>>

Prepend(x, rest) == IF rest = Invalid THEN Invalid ELSE <<x>> \o rest

\* b.decode('utf-8') on the bytes b: one- and two-byte sequences
RECURSIVE utf8_decode(_)
utf8_decode(b) ==
    IF b = <<>> THEN <<>>
    ELSE IF b[1] < 128 THEN Prepend(b[1], utf8_decode(Tail(b)))
    ELSE IF b[1] \in 194..223 /\ Len(b) >= 2 /\ b[2] \in 128..191
    THEN Prepend((b[1] - 192) * 64 + (b[2] - 128), utf8_decode(Tail(Tail(b))))
    ELSE Invalid

\* value.decode('utf-8') / unicode(value, 'utf-8') on a str value
str_decode(value) ==
    IF utf8_decode(value.v) = Invalid THEN Raise
    ELSE Return(UnicodeV(utf8_decode(value.v)))

\* zlib.compress(value): the two-byte zlib header, then the payload
ZlibHeader == <<120, 156>>
zlib_compress(value) == StrV(ZlibHeader \o value.v)

\* zlib.decompress(b) on raw bytes b
zlib_decompress(b) ==
    IF Len(b) >= 2 /\ SubSeq(b, 1, 2) = ZlibHeader
    THEN Return(StrV(SubSeq(b, 3, Len(b))))
    ELSE Raise

\* pickle.dumps(value, HIGHEST_PROTOCOL): protocol 2 opcodes for the values
\* the model pickles (small ints, bools, short byte strings, 1-tuples)
PickleProto == <<128, 2>>
PickleStop == <<46>>

RECURSIVE pickle_save(_)
pickle_save(value) ==
    CASE value.t = "int" -> <<75, value.v[1]>>
      [] value.t = "bool" -> IF value.v[1] = 1 THEN <<136>> ELSE <<137>>
      [] value.t = "str" -> <<85, Len(value.v)>> \o value.v
      [] value.t = "NoneType" -> <<78>>
      [] value.t = "tuple" /\ Len(value.e) = 1 ->
             pickle_save(value.e[1]) \o <<133>>
      [] OTHER -> Invalid

pickle_dumps(value) ==
    IF pickle_save(value) = Invalid THEN Raise
    ELSE Return(StrV(PickleProto \o pickle_save(value) \o PickleStop))

\* the length of the scalar item at the head of the opcode stream b
pickle_item_len(b) ==
    CASE b[1] = 75 -> 2
      [] b[1] = 85 -> 2 + b[2]
      [] OTHER -> 1

\* the scalar item at the head of the opcode stream b
pickle_item(b) ==
    CASE b[1] = 75 -> IntV(b[2])
      [] b[1] = 136 -> BoolV(1)
      [] b[1] = 137 -> BoolV(0)
      [] b[1] = 85 -> StrV(SubSeq(b, 3, 2 + b[2]))
      [] OTHER -> None

\* pickle.loads(value)
pickle_loads(value) ==
    IF \/ value.t # "str"
       \/ Len(value.v) < 4
       \/ SubSeq(value.v, 1, 2) # PickleProto
    THEN Raise
    ELSE LET b == SubSeq(value.v, 3, Len(value.v))
             n == pickle_item_len(b)
         IN  IF b[n + 1] = 133
             THEN Return(TupleV(<<pickle_item(b)>>))
             ELSE Return(pickle_item(b))

\* json.dumps(value): the JSON text as bytes; dates and times are not
\* serializable; text is ASCII in the values the model serializes
JsonNull == <<110, 117, 108, 108>>
JsonTrue == <<116, 114, 117, 101>>
JsonFalse == <<102, 97, 108, 115, 101>>
JsonSep == <<44, 32>>

RECURSIVE json_encode(_)
RECURSIVE json_encode_items(_)
json_encode_items(s) ==
    IF s = <<>> THEN <<>>
    ELSE IF json_encode(s[1]) = Invalid THEN Invalid
    ELSE IF Len(s) = 1 THEN json_encode(s[1])
    ELSE IF json_encode_items(Tail(s)) = Invalid THEN Invalid
    ELSE json_encode(s[1]) \o JsonSep \o json_encode_items(Tail(s))

json_encode(value) ==
    CASE value.t = "NoneType" -> JsonNull
      [] value.t = "bool" -> IF value.v[1] = 1 THEN JsonTrue ELSE JsonFalse
      [] value.t = "int" /\ value.v[1] \in 0..9 -> <<48 + value.v[1]>>
      [] value.t \in {"str", "unicode"} -> <<34>> \o value.v \o <<34>>
      [] value.t \in {"list", "tuple"} ->
             IF json_encode_items(value.e) = Invalid THEN Invalid
             ELSE <<91>> \o json_encode_items(value.e) \o <<93>>
      [] OTHER -> Invalid

json_dumps(value) ==
    IF json_encode(value) = Invalid THEN Raise
    ELSE Return(StrV(json_encode(value)))

\* the index of the quote that closes the string starting at b[1]
RECURSIVE json_close(_, _)
json_close(b, i) == IF b[i] = 34 THEN i ELSE json_close(b, i + 1)

\* the length of the JSON scalar at the head of b
json_scalar_len(b) ==
    CASE b[1] = 110 -> 4
      [] b[1] = 116 -> 4
      [] b[1] = 102 -> 5
      [] b[1] = 34 -> json_close(b, 2)
      [] OTHER -> 1

\* the JSON scalar at the head of b; strings decode to text
json_scalar(b) ==
    CASE b[1] = 110 -> None
      [] b[1] = 116 -> BoolV(1)
      [] b[1] = 102 -> BoolV(0)
      [] b[1] = 34 -> UnicodeV(SubSeq(b, 2, json_close(b, 2) - 1))
      [] OTHER -> IntV(b[1] - 48)

\* the scalars of a JSON array body, in order
RECURSIVE json_items(_)
json_items(b) ==
    IF b = <<>> THEN <<>>
    ELSE LET n == json_scalar_len(b)
         IN  IF Len(b) = n THEN <<json_scalar(b)>>
             ELSE <<json_scalar(b)>> \o json_items(SubSeq(b, n + 3, Len(b)))

\* json.loads(value): arrays decode to lists
json_loads(value) ==
    IF value.t # "str" \/ value.v = <<>> THEN Raise
    ELSE IF value.v[1] = 91
    THEN Return(ListV(json_items(SubSeq(value.v, 2, Len(value.v) - 1))))
    ELSE Return(json_scalar(value.v))

----------------------------------------------------------------------------
(* Descriptor construction.  cls is the class being instantiated; a holds  *)
(* the keyword arguments, with "unset" for an argument that is not passed. *)

BlobFamily == {"BlobProperty", "TextProperty", "StringProperty",
               "PickleProperty", "JsonProperty"}
TextFamily == {"TextProperty", "StringProperty"}
DateTimeFamily == {"DateTimeProperty", "DateProperty", "TimeProperty"}
Classes == {"BooleanProperty", "IntegerProperty", "FloatProperty"}
               \cup BlobFamily \cup DateTimeFamily

\* the descriptor of a construction that raised
NoProp == [cls |-> "none", name |-> "", indexed |-> FALSE,
           repeated |-> FALSE, required |-> FALSE, default |-> None,
           choices |-> <<>>, validator |-> "None", compressed |-> FALSE,
           auto_now_add |-> FALSE, auto_now |-> FALSE]

\* a keyword argument with a default value
kwarg(x, dflt) == IF x = "unset" THEN dflt ELSE x = "True"

\* Property.__init__: indexed is the value the caller passes on
Property___init__(cls, a, indexed) ==
    [cls |-> cls, name |-> a.name, indexed |-> indexed,
     repeated |-> a.repeated, required |-> a.required,
     default |-> a.default, choices |-> a.choices,
     validator |-> a.validator, compressed |-> FALSE,
     auto_now_add |-> FALSE, auto_now |-> FALSE]

\* BlobProperty.__init__: drops the indexed argument, passes indexed=False
\* and then asserts that the result is not both compressed and indexed
BlobProperty___init__(cls, a, indexed) ==
    LET self == [Property___init__(cls, a, FALSE)
                   EXCEPT !.compressed = a.compressed]
    IN  IF self.compressed /\ self.indexed THEN Raise
        ELSE Return(self)

\* TextProperty.__init__(indexed=False)
TextProperty___init__(cls, a, indexed) ==
    BlobProperty___init__(cls, a, indexed)

\* StringProperty.__init__(indexed=True)
StringProperty___init__(cls, a, indexed) ==
    TextProperty___init__(cls, a, indexed)

\* DateTimeProperty.__init__
DateTimeProperty___init__(cls, a) ==
    IF (a.auto_now_add \/ a.auto_now) /\ a.repeated THEN Raise
    ELSE Return([Property___init__(cls, a, kwarg(a.indexed, TRUE))
                   EXCEPT !.auto_now_add = a.auto_now_add,
                          !.auto_now = a.auto_now])

\* cls(**a)
construct(a) ==
    CASE a.cls = "StringProperty" ->
             StringProperty___init__(a.cls, a, kwarg(a.indexed, TRUE))
      [] a.cls = "TextProperty" ->
             TextProperty___init__(a.cls, a, kwarg(a.indexed, FALSE))
      [] a.cls \in {"BlobProperty", "PickleProperty", "JsonProperty"} ->
             BlobProperty___init__(a.cls, a, kwarg(a.indexed, TRUE))
      [] a.cls \in DateTimeFamily -> DateTimeProperty___init__(a.cls, a)
      [] OTHER -> Return(Property___init__(a.cls, a, kwarg(a.indexed, TRUE)))

\* Property._fix_up(cls, name)
Property__fix_up(self, name) ==
    IF self.name = "unset" THEN [self EXCEPT !.name = name] ELSE self

----------------------------------------------------------------------------
(* Validation *)

\* int(value)
to_int(value) == IntV(value.v[1])

\* float(value)
to_float(value) == IF value.t = "float" THEN value ELSE FloatV(2 * value.v[1])

BooleanProperty__validate(self, value) ==
    IF isinstance(value, "bool") THEN Return(value) ELSE Raise

IntegerProperty__validate(self, value) ==
    IF isinstance(value, "int") THEN Return(to_int(value)) ELSE Raise

FloatProperty__validate(self, value) ==
    IF isinstance(value, "int") \/ isinstance(value, "float")
    THEN Return(to_float(value)) ELSE Raise

BlobProperty__validate(self, value) ==
    IF isinstance(value, "str") THEN Return(value) ELSE Raise

TextProperty__validate(self, value) ==
    IF isinstance(value, "str") THEN str_decode(value)
    ELSE IF isinstance(value, "unicode") THEN Return(value)
    ELSE Raise

DateTimeProperty__validate(self, value) ==
    IF isinstance(value, "datetime") THEN Return(value) ELSE Raise

DateProperty__validate(self, value) ==
    IF isinstance(value, "date") THEN Return(value) ELSE Raise

TimeProperty__validate(self, value) ==
    IF isinstance(value, "time") THEN Return(value) ELSE Raise

\* self._validate(value), by the class of self
self__validate(self, value) ==
    CASE self.cls = "BooleanProperty" -> BooleanProperty__validate(self, value)
      [] self.cls = "IntegerProperty" -> IntegerProperty__validate(self, value)
      [] self.cls = "FloatProperty" -> FloatProperty__validate(self, value)
      [] self.cls = "BlobProperty" -> BlobProperty__validate(self, value)
      [] self.cls \in TextFamily -> TextProperty__validate(self, value)
      [] self.cls = "DateTimeProperty" ->
             DateTimeProperty__validate(self, value)
      [] self.cls = "DateProperty" -> DateProperty__validate(self, value)
      [] self.cls = "TimeProperty" -> TimeProperty__validate(self, value)
      [] OTHER -> Return(value)

\* self._validator(self, value): "echo" returns its argument, "drop"
\* returns nothing
call_validator(self, value) ==
    IF self.validator = "echo" THEN Return(value) ELSE Return(None)

\* Property.validate: the result of self._validate is not used
Property_validate(self, value) ==
    IF ~(self.choices = <<>> \/ py_in(value, self.choices[1])) THEN Raise
    ELSE IF self.required /\ value # None THEN Raise
    ELSE IF value = None THEN Return(None)
    ELSE IF ~self__validate(self, value).ok THEN Raise
    ELSE IF self.validator # "None" THEN call_validator(self, value)
    ELSE Return(value)

----------------------------------------------------------------------------
(* Conversion between user values and base values *)

BlobProperty__to_base_type(self, value) ==
    IF self.compressed
    THEN IF value.t = "str" THEN Return(zlib_compress(value)) ELSE Raise
    ELSE Return(value)

\* a stored str has no z_val attribute; only the driver's wrapper has one
BlobProperty__from_base_type(self, value) ==
    IF self.compressed
    THEN IF value.t = "z_wrapper" THEN zlib_decompress(value.v) ELSE Raise
    ELSE Return(value)

TextProperty__to_base_type(self, value) ==
    IF isinstance(value, "str") THEN str_decode(value) ELSE Return(value)

TextProperty__from_base_type(self, value) ==
    IF isinstance(value, "str") THEN str_decode(value)
    ELSE IF isinstance(value, "unicode") THEN Return(value)
    ELSE Return(None)

\* BlobProperty._to_base_type on what the codec returned
after_dumps(self, dumped) ==
    IF dumped.ok THEN BlobProperty__to_base_type(self, dumped.val) ELSE Raise

PickleProperty__to_base_type(self, value) ==
    after_dumps(self, pickle_dumps(value))

\* pickle.loads on what BlobProperty._from_base_type returned
pickle_after_blob(blob) == IF blob.ok THEN pickle_loads(blob.val) ELSE Raise

PickleProperty__from_base_type(self, value) ==
    pickle_after_blob(BlobProperty__from_base_type(self, value))

JsonProperty__to_base_type(self, value) ==
    after_dumps(self, json_dumps(value))

\* json.loads on what BlobProperty._from_base_type returned
json_after_blob(blob) == IF blob.ok THEN json_loads(blob.val) ELSE Raise

JsonProperty__from_base_type(self, value) ==
    json_after_blob(BlobProperty__from_base_type(self, value))

\* datetime.datetime(value.year, value.month, value.day)
DateProperty__to_base_type(self, value) ==
    IF isinstance(value, "date") THEN Return(DateTimeV(value.v[1], 0))
    ELSE Raise

\* value.date()
DateProperty__from_base_type(self, value) ==
    IF isinstance(value, "datetime") THEN Return(DateV(value.v[1]))
    ELSE Raise

\* datetime.datetime(1970, 1, 1, value.hour, ...): day 0, no tzinfo
EpochDay == 0
TimeProperty__to_base_type(self, value) ==
    IF value.t \in {"time", "datetime"}
    THEN Return(DateTimeV(EpochDay, IF value.t = "time" THEN value.v[1]
                                                      ELSE value.v[2]))
    ELSE Raise

\* value.time()
TimeProperty__from_base_type(self, value) ==
    IF isinstance(value, "datetime") THEN Return(TimeV(value.v[2], 0))
    ELSE Raise

\* self._to_base_type(value), by the class of self
self__to_base_type(self, value) ==
    CASE self.cls = "BlobProperty" -> BlobProperty__to_base_type(self, value)
      [] self.cls \in TextFamily -> TextProperty__to_base_type(self, value)
      [] self.cls = "PickleProperty" ->
             PickleProperty__to_base_type(self, value)
      [] self.cls = "JsonProperty" -> JsonProperty__to_base_type(self, value)
      [] self.cls = "DateProperty" -> DateProperty__to_base_type(self, value)
      [] self.cls = "TimeProperty" -> TimeProperty__to_base_type(self, value)
      [] OTHER -> Return(value)

\* self._from_base_type(value), by the class of self
self__from_base_type(self, value) ==
    CASE self.cls = "BlobProperty" -> BlobProperty__from_base_type(self, value)
      [] self.cls \in TextFamily -> TextProperty__from_base_type(self, value)
      [] self.cls = "PickleProperty" ->
             PickleProperty__from_base_type(self, value)
      [] self.cls = "JsonProperty" ->
             JsonProperty__from_base_type(self, value)
      [] self.cls = "DateProperty" ->
             DateProperty__from_base_type(self, value)
      [] self.cls = "TimeProperty" ->
             TimeProperty__from_base_type(self, value)
      [] OTHER -> Return(value)

Property_to_base_type(self, value) ==
    IF value = None THEN Return(value) ELSE self__to_base_type(self, value)

\* from_base_type as it would be if it handed the stored value back
\* without the class's conversion
Property_from_base_type_unconverted(self, value) == Return(value)

Property_from_base_type(self, value) ==
    IF value = None THEN Return(value) ELSE self__from_base_type(self, value)

----------------------------------------------------------------------------
(* Operations on a record.  instance is the entity mapping; the result     *)
(* carries the mapping the call leaves behind.                             *)

Outcome(ok, instance, val) == [ok |-> ok, entity |-> instance, val |-> val]

\* the calls of a list comprehension all returned; the values they returned
AllOk(rs) == \A i \in 1..Len(rs) : rs[i].ok
Vals(rs) == [i \in 1..Len(rs) |-> rs[i].val]

\* self.to_base_type(validated), when validate returned
based_on(self, validated) ==
    IF validated.ok THEN Property_to_base_type(self, validated.val) ELSE Raise

\* self.to_base_type(self.validate(k))
base_of(self, k) == based_on(self, Property_validate(self, k))

\* instance[self._name] = based, when validation and conversion returned
assign(self, instance, ok, based) ==
    IF ok THEN Outcome(TRUE, [instance EXCEPT ![self.name] = based], None)
    ELSE Outcome(FALSE, instance, None)

\* the longest prefix of rs whose calls all returned
RECURSIVE OkPrefix(_)
OkPrefix(rs) ==
    IF rs = <<>> \/ ~rs[1].ok THEN <<>>
    ELSE <<rs[1].val>> \o OkPrefix(Tail(rs))

\* the assignment as it would be if each converted element were appended
\* to the stored list as it is produced
appended(self, instance, based) ==
    Outcome(AllOk(based),
            [instance EXCEPT ![self.name] = ListV(OkPrefix(based))], None)

\* instance[self._name] = [...], the list comprehensions having run
assign_list(self, instance, based) ==
    assign(self, instance, AllOk(based), ListV(Vals(based)))

\* instance[self._name] = self.to_base_type(value), value validated
assign_scalar(self, instance, based) ==
    assign(self, instance, based.ok, based.val)

\* Property.__set__
Property___set__(self, instance, value) ==
    IF self.repeated
    THEN IF ~(isinstance(value, "tuple") \/ isinstance(value, "list"))
         THEN Outcome(FALSE, instance, None)
         ELSE assign_list(self, instance,
                  [i \in 1..Len(value.e) |-> base_of(self, value.e[i])])
    ELSE assign_scalar(self, instance, base_of(self, value))

\* the value __get__ stores for a property that holds none
default_of(self) ==
    IF self.repeated /\ ~truthy(self.default) THEN ListV(<<>>)
    ELSE self.default

\* if self._name not in instance: self.__set__(instance, default)
materialize(self, instance) ==
    IF instance[self.name] = Absent
    THEN Property___set__(self, instance, default_of(self))
    ELSE Outcome(TRUE, instance, None)

\* return [self.from_base_type(k) for k in instance[self._name]], or
\* return self.from_base_type(instance[self._name])
read_back(self, instance, users) ==
    IF AllOk(users)
    THEN Outcome(TRUE, instance,
                 IF self.repeated THEN ListV(Vals(users)) ELSE users[1].val)
    ELSE Outcome(FALSE, instance, None)

\* the stored base values __get__ converts
stored_values(self, instance) ==
    IF self.repeated THEN instance[self.name].e ELSE <<instance[self.name]>>

\* __get__ once the default is materialized
get_after(self, materialized) ==
    IF ~materialized.ok THEN materialized
    ELSE read_back(self, materialized.entity,
             [i \in 1..Len(stored_values(self, materialized.entity)) |->
                  Property_from_base_type(self,
                      stored_values(self, materialized.entity)[i])])

\* Property.__get__
Property___get__(self, instance) ==
    get_after(self, materialize(self, instance))

\* Property.__delete__: instance.pop(self._name, None)
Property___delete__(self, instance) ==
    Outcome(TRUE, [instance EXCEPT ![self.name] = Absent], None)

\* instant n of the clock as datetime.datetime.utcnow() returns it
utcnow(n) == DateTimeV(n + 1, 10 * n)

DateTimeProperty__now(self, n) == utcnow(n)

\* datetime.datetime.utcnow().date()
DateProperty__now(self, n) == DateV(utcnow(n).v[1])

\* self._now(): TimeProperty inherits DateTimeProperty._now
self__now(self, n) ==
    IF self.cls = "DateProperty" THEN DateProperty__now(self, n)
    ELSE DateTimeProperty__now(self, n)

\* if v is None and self._auto_now_add: setattr(entity, self._name, now)
now_add(self, got, n1) ==
    IF ~got.ok THEN got
    ELSE IF got.val = None /\ self.auto_now_add
    THEN Property___set__(self, got.entity, self__now(self, n1))
    ELSE Outcome(TRUE, got.entity, None)

\* if self._auto_now: setattr(entity, self._name, now)
now_stamp(self, added, n2) ==
    IF ~added.ok THEN Outcome(FALSE, added.entity, None)
    ELSE IF self.auto_now
    THEN Property___set__(self, added.entity, self__now(self, n2))
    ELSE Outcome(TRUE, added.entity, None)

\* DateTimeProperty._prepare_for_put; n1 and n2 are the clock at the two
\* calls of self._now()
DateTimeProperty__prepare_for_put(self, instance, n1, n2) ==
    now_stamp(self, now_add(self, Property___get__(self, instance), n1), n2)

\* Property._prepare_for_put: pass
Property__prepare_for_put(self, instance) == Outcome(TRUE, instance, None)

\* self._prepare_for_put(entity), by the class of self
self__prepare_for_put(self, instance, n1, n2) ==
    IF self.cls \in DateTimeFamily
    THEN DateTimeProperty__prepare_for_put(self, instance, n1, n2)
    ELSE Property__prepare_for_put(self, instance)

----------------------------------------------------------------------------
(* Inputs *)

Ascii == StrV(<<97>>)
AsciiText == UnicodeV(<<97>>)
\* the two bytes of U+00E9 in UTF-8, and the text they decode to
Accented == StrV(<<195, 169>>)
AccentedText == UnicodeV(<<233>>)
\* a truncated two-byte sequence: not valid UTF-8
Truncated == StrV(<<195>>)

\* the values handed to set and validate, by class: values of the class's
\* type, values it accepts through a subclass, and values it rejects
Samples(cls) ==
    CASE cls = "BooleanProperty" -> {BoolV(1), IntV(5)}
      [] cls = "IntegerProperty" -> {IntV(5), BoolV(1), Ascii}
      [] cls = "FloatProperty" -> {FloatV(5), IntV(5), Ascii}
      [] cls = "BlobProperty" -> {Ascii, Accented, AsciiText}
      [] cls \in TextFamily ->
             {Ascii, AsciiText, Accented, AccentedText, Truncated, IntV(5)}
      [] cls = "PickleProperty" -> {IntV(5), TupleV(<<IntV(5)>>), Ascii}
      [] cls = "JsonProperty" ->
             {IntV(5), ListV(<<IntV(5), IntV(3)>>), TupleV(<<IntV(5)>>),
              AsciiText, DateV(1)}
      [] cls = "DateTimeProperty" -> {DateTimeV(1, 30), DateV(1)}
      [] cls = "DateProperty" -> {DateV(1), DateTimeV(1, 30), TimeV(30, 0)}
      [] cls = "TimeProperty" -> {TimeV(30, 0), TimeV(30, 1), DateTimeV(1, 30)}
      [] OTHER -> {}

\* the elements of the sequences handed to a repeated property
Elems(cls) ==
    CASE cls = "BooleanProperty" -> {BoolV(1), BoolV(0), IntV(5)}
      [] cls = "IntegerProperty" -> {IntV(5), IntV(3), Ascii}
      [] cls = "FloatProperty" -> {FloatV(5), IntV(3), Ascii}
      [] cls = "BlobProperty" -> {Ascii, Accented, AsciiText}
      [] cls \in TextFamily -> {AsciiText, Accented, IntV(5)}
      [] cls = "PickleProperty" -> {IntV(5), TupleV(<<IntV(5)>>)}
      [] cls = "JsonProperty" -> {IntV(5), TupleV(<<IntV(5)>>), DateV(1)}
      [] cls = "DateTimeProperty" -> {DateTimeV(1, 30), DateTimeV(1, 0), DateV(1)}
      [] cls = "DateProperty" -> {DateV(1), DateTimeV(1, 30), TimeV(30, 0)}
      [] cls = "TimeProperty" -> {TimeV(30, 0), TimeV(30, 1), DateTimeV(1, 30)}
      [] OTHER -> {}

\* a value of the class's own type
Typical(cls) ==
    CASE cls = "BooleanProperty" -> BoolV(1)
      [] cls = "IntegerProperty" -> IntV(5)
      [] cls = "FloatProperty" -> FloatV(5)
      [] cls \in {"BlobProperty"} -> Ascii
      [] cls \in TextFamily -> AsciiText
      [] cls \in {"PickleProperty", "JsonProperty"} -> IntV(5)
      [] cls = "DateTimeProperty" -> DateTimeV(1, 30)
      [] cls = "DateProperty" -> DateV(1)
      [] cls = "TimeProperty" -> TimeV(30, 0)
      [] OTHER -> None

\* all sequences over S of length at most n
RECURSIVE SeqsUpTo(_, _)
SeqsUpTo(S, n) ==
    IF n = 0 THEN {<<>>}
    ELSE SeqsUpTo(S, n - 1)
           \cup {Append(s, x) : s \in {q \in SeqsUpTo(S, n - 1) : Len(q) = n - 1},
                                x \in S}

\* the values handed to set: a repeated property is given lists, a tuple
\* for each one-element sequence, and two values that are not sequences
SetArgs(self) ==
    IF self.repeated
    THEN {ListV(s) : s \in SeqsUpTo(Elems(self.cls), MaxLen)}
           \cup {TupleV(<<x>>) : x \in Elems(self.cls)}
           \cup {None, Typical(self.cls)}
    ELSE Samples(self.cls) \cup {None}

\* the default argument
Defaults(cls, repeated) ==
    IF repeated THEN {None, TupleV(<<Typical(cls)>>)}
    ELSE {None, Typical(cls)}

\* the compressed argument
Compressions(cls) ==
    IF cls \in {"BlobProperty", "PickleProperty", "JsonProperty"}
    THEN BOOLEAN ELSE {FALSE}

\* the auto_now_add and auto_now arguments
AutoFlags(cls) == IF cls \in DateTimeFamily THEN BOOLEAN ELSE {FALSE}

Args(cls, indexed, compressed, repeated, required, default, choices,
     validator, auto_now_add, auto_now) ==
    [cls |-> cls, name |-> "unset", indexed |-> indexed,
     compressed |-> compressed, repeated |-> repeated,
     required |-> required, default |-> default, choices |-> choices,
     validator |-> validator, auto_now_add |-> auto_now_add,
     auto_now |-> auto_now]

\* the choices argument: none, or a set holding one value of the class
ChoiceArgs(cls) == {<<>>, <<{Typical(cls)}>>}

\* the validator argument: none, one that returns its argument (on the
\* classes whose validate is handed bytes or text), one that returns nothing
Validators(cls) ==
    IF cls \in TextFamily THEN {"None", "echo", "drop"} ELSE {"None", "drop"}

\* the constructor calls: every combination of the value-related arguments
\* without an indexed argument, and every indexed argument on an otherwise
\* plain descriptor
ValueConfigs(cls, repeated) ==
    {Args(cls, "unset", c, repeated, rq, d, ch, vd, ana, an) :
        c \in Compressions(cls), rq \in BOOLEAN,
        d \in Defaults(cls, repeated), ch \in ChoiceArgs(cls),
        vd \in Validators(cls), ana \in AutoFlags(cls), an \in AutoFlags(cls)}

IndexedConfigs(cls) ==
    {Args(cls, ix, c, FALSE, FALSE, None, <<>>, "None", FALSE, FALSE) :
        ix \in {"True", "False"}, c \in Compressions(cls)}

Configs ==
    UNION {ValueConfigs(cls, r) \cup IndexedConfigs(cls) :
             cls \in Classes, r \in BOOLEAN}

----------------------------------------------------------------------------
(* The state machine *)

Keys == {"p", "other"}

\* what the last call was, what it was given and how it ended
Last(op, arg, ok, result) ==
    [op |-> op, arg |-> arg, ok |-> ok, result |-> result]

\* a record type is defined with one property p: the descriptor is
\* constructed and fixed up, and a fresh record holds no value for it
Init ==
    /\ ctor \in Configs
    /\ prop = IF construct(ctor).ok
              THEN Property__fix_up(construct(ctor).val, "p")
              ELSE NoProp
    /\ entity = [k \in Keys |-> IF k = "other" THEN IntV(7) ELSE Absent]
    /\ last = Last("init", None, construct(ctor).ok, None)

Defined == prop # NoProp

\* record.p
Get ==
    /\ Defined
    /\ LET out == Property___get__(prop, entity)
       IN  /\ entity' = out.entity
           /\ last' = Last("get", None, out.ok, out.val)
    /\ UNCHANGED <<ctor, prop>>

\* record.p = value
Set(value) ==
    /\ Defined
    /\ LET out == Property___set__(prop, entity, value)
       IN  /\ entity' = out.entity
           /\ last' = Last("set", value, out.ok, None)
    /\ UNCHANGED <<ctor, prop>>

\* del record.p
Delete ==
    /\ Defined
    /\ LET out == Property___delete__(prop, entity)
       IN  /\ entity' = out.entity
           /\ last' = Last("delete", None, out.ok, None)
    /\ UNCHANGED <<ctor, prop>>

\* prop.validate(value)
Validate(value) ==
    /\ Defined
    /\ LET out == Property_validate(prop, value)
       IN  last' = Last("validate", value, out.ok, out.val)
    /\ UNCHANGED <<ctor, prop, entity>>

\* prop._prepare_for_put(record), the clock reading n1 and then n2
PrepareForPut(n1, n2) ==
    /\ Defined
    /\ LET out == self__prepare_for_put(prop, entity, n1, n2)
       IN  /\ entity' = out.entity
           /\ last' = Last("prepare_for_put",
                           TupleV(<<utcnow(n1), utcnow(n2)>>), out.ok, None)
    /\ UNCHANGED <<ctor, prop>>

Next ==
    \/ Get
    \/ \E value \in SetArgs(prop) : Set(value)
    \/ Delete
    \/ \E value \in Samples(prop.cls) \cup {None} : Validate(value)
    \/ \E n1 \in 1..MaxNow : \E n2 \in n1..MaxNow : PrepareForPut(n1, n2)

Spec == Init /\ [][Next]_vars

----------------------------------------------------------------------------
(* Properties *)

\* the value passes the choices check of validate
InChoices(value) == prop.choices = <<>> \/ py_in(value, prop.choices[1])

\* the value passes the type check of the property's class
RightType(value) == self__validate(prop, value).ok

\* the value converts to a base value
Converts(value) == Property_to_base_type(prop, value).ok

\* a descriptor with no custom validator and no compression: the value a
\* call stores is the value it was given, and what is stored can be read
Plain == prop.validator = "None" /\ ~prop.compressed

\* C1: on a required property validate(None) fails, validate(v) succeeds
\* for a non-null v that passes the choices and type checks, set(record, v)
\* stores such a v and set(record, None) is rejected.
C1_RequiredForbidsNull ==
    (Defined /\ prop.required) =>
        /\ (last.op = "validate" /\ last.arg = None) => ~last.ok
        /\ (/\ last.op = "validate" /\ last.arg # None
            /\ InChoices(last.arg) /\ RightType(last.arg)) => last.ok
        /\ (~prop.repeated /\ last.op = "set" /\ last.arg = None) => ~last.ok
        /\ (/\ ~prop.repeated /\ last.op = "set" /\ last.arg # None
            /\ InChoices(last.arg) /\ RightType(last.arg)
            /\ Converts(last.arg))
               => (last.ok /\ entity[prop.name] \notin {Absent, None})

\* C2: on a non-required property whose choices do not contain None,
\* validate(None) succeeds and returns None, validate(v) fails for a
\* non-null v outside choices and succeeds for one inside choices of the
\* right type, and set(record, None) and the first get of a never-set
\* property with default None both succeed.
C2_NullIsChoiceExempt ==
    (/\ Defined /\ ~prop.required
     /\ prop.choices # <<>> /\ None \notin prop.choices[1]) =>
        /\ (last.op = "validate" /\ last.arg = None)
               => (last.ok /\ last.result = None)
        /\ (/\ last.op = "validate" /\ last.arg # None
            /\ ~InChoices(last.arg)) => ~last.ok
        /\ (/\ last.op = "validate" /\ last.arg # None
            /\ InChoices(last.arg) /\ RightType(last.arg)) => last.ok
        /\ (~prop.repeated /\ last.op = "set" /\ last.arg = None) => last.ok
        /\ (/\ ~prop.repeated /\ last.op = "get" /\ prop.default = None
            /\ entity[prop.name] \in {Absent, None}) => last.ok

\* C3: a set that fails, in validation or in conversion, leaves the whole
\* entity mapping as it was before the call.
C3_NoPartialWrite ==
    [][(last'.op = "set" /\ ~last'.ok) => entity' = entity]_vars

\* a repeated property that holds a value was given a sequence whose first
\* element is valid and whose second is not; the set failed
C3_Witness ==
    /\ Defined /\ prop.repeated
    /\ last.op = "set" /\ ~last.ok
    /\ last.arg.t = "list" /\ Len(last.arg.e) = 2
    /\ Property_validate(prop, last.arg.e[1]).ok
    /\ Property_to_base_type(prop, last.arg.e[1]).ok
    /\ ~Property_validate(prop, last.arg.e[2]).ok
    /\ entity[prop.name] # Absent

\* the user value a stored element reads back as, for the element x that
\* was handed to set
UserValue(x) ==
    Property_from_base_type(prop,
        Property_to_base_type(prop, Property_validate(prop, x).val).val).val

\* the sequence get materializes on a repeated property that holds no value
DefaultSequence == IF truthy(prop.default) THEN prop.default.e ELSE <<>>

\* C4: the value stored for a repeated property is always a sequence; a
\* successful set(record, s) followed by get returns a sequence of the
\* length of s whose i-th element is the user value of s[i]; a get on a
\* property that holds no value yields the default sequence, or the empty
\* sequence.  Stated for the descriptors without custom validator and
\* without compression.
C4_RepeatedIsSequence ==
    [][(Defined /\ prop.repeated /\ Plain) =>
        /\ entity'[prop.name] # Absent => entity'[prop.name].t = "list"
        /\ (last.op = "set" /\ last.ok /\ last'.op = "get") =>
              /\ last'.ok
              /\ last'.result.t = "list"
              /\ Len(last'.result.e) = Len(last.arg.e)
              /\ \A i \in 1..Len(last.arg.e) :
                     last'.result.e[i] = UserValue(last.arg.e[i])
        /\ (last'.op = "get" /\ entity[prop.name] = Absent) =>
              /\ last'.ok
              /\ Len(last'.result.e) = Len(DefaultSequence)
              /\ \A i \in 1..Len(DefaultSequence) :
                     py_eq(last'.result.e[i], DefaultSequence[i])]_vars

\* C5: a scalar property that holds no value gets an entry only by a get or
\* a set; the first get returns the configured default and writes it; a
\* later get with no set or delete in between returns the same value and
\* leaves the mapping unchanged.  Stated for the descriptors without custom
\* validator and without compression.
C5_LazyDefault ==
    [][(Defined /\ ~prop.repeated /\ Plain) =>
        /\ (entity[prop.name] = Absent /\ entity'[prop.name] # Absent)
               => last'.op \in {"get", "set", "prepare_for_put"}
        /\ (last'.op = "get" /\ entity[prop.name] = Absent) =>
              /\ last'.ok
              /\ py_eq(last'.result, prop.default)
              /\ entity'[prop.name] # Absent
        /\ (last.op = "get" /\ last.ok /\ last'.op = "get") =>
              /\ last'.ok
              /\ last'.result = last.result
              /\ entity' = entity]_vars

\* the user value of the clock reading n, by class
NowValue(n) ==
    CASE prop.cls = "DateProperty" -> DateV(utcnow(n).v[1])
      [] prop.cls = "TimeProperty" -> TimeV(utcnow(n).v[2], 0)
      [] OTHER -> utcnow(n)

\* the value of the record's attribute in mapping m; None when it raises
ValueIn(m) == Property___get__(prop, m).val

\* C6: prepareForPut leaves the value equal to the current UTC now when
\* auto_now is set, or when auto_now_add is set and the value was None
\* before the call; otherwise the value is unchanged.  Stated for the
\* descriptors without custom validator, choices or required flag.
C6_AutoNow ==
    [][(/\ Defined /\ prop.cls \in DateTimeFamily /\ ~prop.repeated
        /\ Plain /\ prop.choices = <<>> /\ ~prop.required
        /\ last'.op = "prepare_for_put") =>
           IF prop.auto_now
           THEN last'.ok /\ ValueIn(entity') = NowValue((last'.arg.e[2].v[1]) - 1)
           ELSE IF prop.auto_now_add /\ ValueIn(entity) = None
           THEN last'.ok /\ ValueIn(entity') = NowValue((last'.arg.e[1].v[1]) - 1)
           ELSE ValueIn(entity') = ValueIn(entity)]_vars

\* C7: BlobProperty(compressed=True, indexed=True) fails at construction,
\* and no descriptor is both compressed and indexed.
C7_CompressedIndexedRejected ==
    /\ (/\ ctor.cls = "BlobProperty" /\ ctor.compressed
        /\ ctor.indexed = "True") => ~Defined
    /\ ~(prop.compressed /\ prop.indexed)

\* C8: a StringProperty constructed without an indexed argument is indexed,
\* a TextProperty constructed without one is not, and a BlobProperty never
\* is.
C8_IndexedDefaults ==
    Defined =>
        /\ (ctor.cls = "StringProperty" /\ ctor.indexed = "unset")
               => prop.indexed
        /\ (ctor.cls = "TextProperty" /\ ctor.indexed = "unset")
               => ~prop.indexed
        /\ ctor.cls = "BlobProperty" => ~prop.indexed

\* no tuple at any depth
RECURSIVE NoTuple(_)
NoTuple(value) ==
    /\ value.t # "tuple"
    /\ \A i \in 1..Len(value.e) : NoTuple(value.e[i])

IsAscii(value) == \A i \in 1..Len(value.v) : value.v[i] < 128

\* the value is already in the form the class reads back: not a non-ASCII
\* byte string for text, a plain date for a date, a time without tzinfo
\* for a time, a serializable value without tuples for JSON, a picklable
\* value for pickle
UserForm(value) ==
    CASE prop.cls \in TextFamily -> value.t # "str" \/ IsAscii(value)
      [] prop.cls = "DateProperty" -> value.t # "datetime"
      [] prop.cls = "TimeProperty" -> value.t = "time" => value.v[2] = 0
      [] prop.cls = "JsonProperty" -> NoTuple(value) /\ json_dumps(value).ok
      [] prop.cls = "PickleProperty" -> pickle_dumps(value).ok
      [] OTHER -> TRUE

\* what set is given is in user form: the value, or on a repeated property
\* a list of values in user form
ArgInUserForm(value) ==
    IF prop.repeated
    THEN value.t = "list" /\ \A i \in 1..Len(value.e) : UserForm(value.e[i])
    ELSE UserForm(value)

\* from_base_type(to_base_type(v)) returns a value equal to v
RoundTrips(value) ==
    /\ Property_to_base_type(prop, value).ok
    /\ Property_from_base_type(prop,
           Property_to_base_type(prop, value).val).ok
    /\ py_eq(Property_from_base_type(prop,
                 Property_to_base_type(prop, value).val).val, value)

C10_BytesValidateAsText ==
    (/\ Defined /\ prop.cls \in TextFamily /\ ~prop.repeated
     /\ last.arg.t = "str" /\ str_decode(last.arg).ok) =>
        /\ last.op = "validate" =>
              /\ last.ok = Property_validate(prop, str_decode(last.arg).val).ok
              /\ last.result =
                     Property_validate(prop, str_decode(last.arg).val).val
              /\ last.result.t # "str"
        /\ (last.op = "set" /\ last.ok) =>
              entity = Property___set__(prop, entity,
                                        str_decode(last.arg).val).entity
====
